---- MODULE Spec2Model ----
(***************************************************************************)
(* BigVec (src/data-structures/src/big_vec.rs): a vector stored as chunks  *)
(* in a KeyValueStore<usize, Vec<V>>, with an in-memory directory          *)
(* vec_structure of chunk sizes and a sliding first key start_index.       *)
(*                                                                         *)
(* A BigVec value is the record                                            *)
(*   [start_index, capacity_per_vec, vec_structure, vec_data]              *)
(* where vec_structure is a sequence (Rust index i is TLA+ index i + 1)    *)
(* and vec_data is a function whose DOMAIN is the set of keys present.     *)
(* Every method is an operator from a BigVec (and arguments) to an outcome *)
(*   [bv, ret, panic]                                                      *)
(* bv being the BigVec as the method left it (at the panic, when it        *)
(* panics), ret the returned value and panic the reason or "none".         *)
(***************************************************************************)
EXTENDS Integers, Sequences, FiniteSets, TLC

VARIABLES start_index, capacity_per_vec, vec_structure, vec_data,
          fresh, call, ret, panicked

vars == <<start_index, capacity_per_vec, vec_structure, vec_data,
          fresh, call, ret, panicked>>

(***************************************************************************)
(* Bounds of the model.  BigVec never inspects an element, so the elements *)
(* are the distinct values 1, 2, 3, ... in the order the calls create them;*)
(* fresh is the next unused one.                                           *)
(***************************************************************************)
\* largest capacity_per_vec given to with_capacity_per_vec
MaxCap == 2
\* number of elements the calls create in one run
MaxFresh == 5
\* longest vector given to push_vec, push_vec_raw and From<Vec>
MaxElems == 2
\* pop_first_vec is not started once start_index has reached MaxStart
MaxStart == 1
\* the longest flat sequence a BigVec is built from, and its largest value
MaxSeq == 4

MaxVal == 2

\* the vector <<from, from + 1, ..., from + n - 1>>
FreshVec(from, n) == [i \in 1..n |-> from + i - 1]

(***************************************************************************)
(* Option, outcomes, Vec and KeyValueStore primitives.                     *)
(***************************************************************************)
None == << >>
Some(v) == << v >>

Ok(bv, r) == [bv |-> bv, ret |-> r, panic |-> "none"]
Panic(bv, msg) == [bv |-> bv, ret |-> None, panic |-> msg]

\* KeyValueStore::insert creates or overwrites the entry
StoreInsert(store, k, v) ==
    [x \in (DOMAIN store) \cup {k} |-> IF x = k THEN v ELSE store[x]]

\* KeyValueStore::remove deletes the entry (the caller reads store[k] first)
StoreRemove(store, k) ==
    [x \in (DOMAIN store) \ {k} |-> store[x]]

EmptyStore == [x \in {} |-> << >>]

\* Vec::insert(i, e), 0 <= i <= Len(s)
VecInsert(s, i, e) == SubSeq(s, 1, i) \o <<e>> \o SubSeq(s, i + 1, Len(s))

\* Vec::pop on a non-empty vec: the vec without its last element
VecInit(s) == SubSeq(s, 1, Len(s) - 1)

\* Vec::remove(0)
VecTail(s) == SubSeq(s, 2, Len(s))

RECURSIVE SumSeq(_)
SumSeq(s) == IF s = << >> THEN 0 ELSE s[1] + SumSeq(VecTail(s))

Min(a, b) == IF a < b THEN a ELSE b

(***************************************************************************)
(* Constructors and observers.                                             *)
(***************************************************************************)
with_capacity_per_vec(cap) ==
    [start_index |-> 0, capacity_per_vec |-> cap,
     vec_structure |-> << >>, vec_data |-> EmptyStore]

len(bv) == SumSeq(bv.vec_structure)

is_empty(bv) == bv.vec_structure = << >>

vec_nb(bv) == Len(bv.vec_structure)

\* a slip that returns the directory position instead of the store key
get_correct_indexes_unshifted(bv, index) ==
    IF bv.capacity_per_vec = 0 THEN Panic(bv, "divide_by_zero")
    ELSE
    LET data_index == index \div bv.capacity_per_vec
        vec_index == index % bv.capacity_per_vec
        n == Len(bv.vec_structure)
    IN  IF \/ data_index >= n
           \/ (data_index + 1 = n /\ vec_index >= bv.vec_structure[n])
        THEN Ok(bv, None)
        ELSE Ok(bv, Some(<<data_index, vec_index>>))

get_correct_indexes(bv, index) ==
    IF bv.capacity_per_vec = 0 THEN Panic(bv, "divide_by_zero")
    ELSE
    LET data_index == index \div bv.capacity_per_vec
        vec_index == index % bv.capacity_per_vec
        n == Len(bv.vec_structure)
    IN  IF \/ data_index >= n
           \/ (data_index + 1 = n /\ vec_index >= bv.vec_structure[n])
        THEN Ok(bv, None)
        ELSE Ok(bv, Some(<<data_index + bv.start_index, vec_index>>))

\* get(&index) followed by the deref of the BigVecItemRef, as callers read the item
get(bv, index) ==
    LET r == get_correct_indexes(bv, index) IN
    IF r.panic # "none" \/ r.ret = None THEN r
    ELSE LET key == r.ret[1][1]
             item_index == r.ret[1][2]
         IN  IF key \notin DOMAIN bv.vec_data THEN Panic(bv, "unwrap_none_store")
             ELSE IF item_index >= Len(bv.vec_data[key]) THEN Panic(bv, "unwrap_none_item")
             ELSE Ok(bv, Some(bv.vec_data[key][item_index + 1]))

\* *get_mut(&index).unwrap() = value, the assignment through BigVecItemRefMut
set_at(bv, index, value) ==
    LET r == get_correct_indexes(bv, index) IN
    IF r.panic # "none" THEN r
    ELSE IF r.ret = None THEN Panic(bv, "unwrap_none_index")
    ELSE LET key == r.ret[1][1]
             item_index == r.ret[1][2]
         IN  IF key \notin DOMAIN bv.vec_data THEN Panic(bv, "unwrap_none_store")
             ELSE IF item_index >= Len(bv.vec_data[key]) THEN Panic(bv, "unwrap_none_item")
             ELSE Ok([bv EXCEPT !.vec_data[key][item_index + 1] = value], None)

(***************************************************************************)
(* push, pop, pop_first_vec.                                               *)
(***************************************************************************)
\* a slip that adds to the last chunk without counting the element
push_forgets_count(bv, element) ==
    LET vec_length == Len(bv.vec_structure) IN
    IF vec_length = 0
    THEN Ok([bv EXCEPT !.vec_structure = Append(@, 1),
                       !.vec_data = StoreInsert(@, bv.start_index, <<element>>)], None)
    ELSE IF bv.vec_structure[vec_length] = bv.capacity_per_vec
    THEN Ok([bv EXCEPT !.vec_structure = Append(@, 1),
                       !.vec_data = StoreInsert(@, vec_length + bv.start_index, <<element>>)],
            None)
    ELSE LET key == vec_length + bv.start_index - 1 IN
         IF key \notin DOMAIN bv.vec_data THEN Panic(bv, "unwrap_none_store")
         ELSE Ok([bv EXCEPT !.vec_data[key] = Append(@, element)], None)

push(bv, element) ==
    LET vec_length == Len(bv.vec_structure) IN
    IF vec_length = 0
    THEN Ok([bv EXCEPT !.vec_structure = Append(@, 1),
                       !.vec_data = StoreInsert(@, bv.start_index, <<element>>)], None)
    ELSE IF bv.vec_structure[vec_length] = bv.capacity_per_vec
    THEN Ok([bv EXCEPT !.vec_structure = Append(@, 1),
                       !.vec_data = StoreInsert(@, vec_length + bv.start_index, <<element>>)],
            None)
    ELSE LET key == vec_length + bv.start_index - 1
             bumped == [bv EXCEPT !.vec_structure[vec_length] = @ + 1]
         IN  IF key \notin DOMAIN bv.vec_data THEN Panic(bumped, "unwrap_none_store")
             ELSE Ok([bumped EXCEPT !.vec_data[key] = Append(@, element)], None)

\* a slip that leaves the emptied last chunk in the directory and the store
pop_keeps_empty_chunk(bv) ==
    LET vec_length == Len(bv.vec_structure) IN
    IF vec_length = 0 THEN Ok(bv, None)
    ELSE IF bv.vec_structure[vec_length] = 0 THEN Panic(bv, "subtract_overflow")
    ELSE
    LET key == vec_length - 1
        lowered == [bv EXCEPT !.vec_structure[vec_length] = @ - 1]
    IN  IF key \notin DOMAIN bv.vec_data THEN Panic(lowered, "unwrap_none_store")
        ELSE LET data == bv.vec_data[key] IN
             Ok([lowered EXCEPT !.vec_data[key] = IF data = << >> THEN data ELSE VecInit(data)],
                IF data = << >> THEN None ELSE Some(data[Len(data)]))

\* the decrement of a directory entry 0 overflows usize; no call leaves an
\* entry 0 behind, so the case is never reached between calls
pop(bv) ==
    LET vec_length == Len(bv.vec_structure) IN
    IF vec_length = 0 THEN Ok(bv, None)
    ELSE IF bv.vec_structure[vec_length] = 0 THEN Panic(bv, "subtract_overflow")
    ELSE
    LET key == vec_length - 1
        lowered == [bv EXCEPT !.vec_structure[vec_length] = @ - 1]
    IN  IF key \notin DOMAIN bv.vec_data THEN Panic(lowered, "unwrap_none_store")
        ELSE LET data == bv.vec_data[key]
                 popped == IF data = << >> THEN None ELSE Some(data[Len(data)])
             IN  IF lowered.vec_structure[vec_length] = 0
                 THEN Ok([lowered EXCEPT !.vec_data = StoreRemove(@, key),
                                         !.vec_structure = VecInit(@)], popped)
                 ELSE Ok([lowered EXCEPT !.vec_data[key] =
                                             IF data = << >> THEN data ELSE VecInit(data)],
                         popped)

\* a slip that reads the front chunk at key 0 instead of start_index
pop_first_vec_reads_zero(bv) ==
    IF bv.vec_structure = << >> THEN Ok(bv, None)
    ELSE Ok([bv EXCEPT !.vec_structure = VecTail(@),
                       !.vec_data = StoreRemove(@, 0),
                       !.start_index = @ + 1],
            IF 0 \in DOMAIN bv.vec_data THEN Some(bv.vec_data[0]) ELSE None)

pop_first_vec(bv) ==
    IF bv.vec_structure = << >> THEN Ok(bv, None)
    ELSE Ok([bv EXCEPT !.vec_structure = VecTail(@),
                       !.vec_data = StoreRemove(@, bv.start_index),
                       !.start_index = @ + 1],
            IF bv.start_index \in DOMAIN bv.vec_data
            THEN Some(bv.vec_data[bv.start_index]) ELSE None)

(***************************************************************************)
(* insert and its cascade loop.                                            *)
(***************************************************************************)
\* the loop of insert (big_vec.rs 265-289): to_push moves to the front of the
\* chunk at index_to_push, whose last element moves on when the directory says
\* the chunk was full
RECURSIVE insert_cascade(_, _, _)
insert_cascade(bv, to_push, index_to_push) ==
    IF index_to_push >= Len(bv.vec_structure)
    THEN Ok([bv EXCEPT !.vec_structure = Append(@, 1),
                       !.vec_data = StoreInsert(@, index_to_push, <<to_push>>)], None)
    ELSE IF index_to_push \notin DOMAIN bv.vec_data THEN Panic(bv, "expect_none_store")
    ELSE LET amount == bv.vec_structure[index_to_push + 1]
             new_data == <<to_push>> \o bv.vec_data[index_to_push]
         IN  IF amount < bv.capacity_per_vec
             THEN Ok([bv EXCEPT !.vec_data[index_to_push] = new_data,
                                !.vec_structure[index_to_push + 1] = @ + 1], None)
             ELSE insert_cascade([bv EXCEPT !.vec_data[index_to_push] = VecInit(new_data)],
                                 new_data[Len(new_data)], index_to_push + 1)

insert(bv, index, element) ==
    IF bv.capacity_per_vec = 0 THEN Panic(bv, "divide_by_zero")
    ELSE
    LET n == Len(bv.vec_structure)
        vec_index == index % bv.capacity_per_vec
        checked_index == index \div bv.capacity_per_vec
        data_index == checked_index + bv.start_index
    IN  IF \/ checked_index > n
           \/ (checked_index = n /\ vec_index > 0)
           \/ (checked_index + 1 = n /\ vec_index >= bv.vec_structure[n])
        THEN Panic(bv, "out_of_bounds")
        ELSE IF data_index >= n
        THEN Ok([bv EXCEPT !.vec_structure = Append(@, 1),
                           !.vec_data = StoreInsert(@, data_index, <<element>>)], None)
        ELSE IF data_index \notin DOMAIN bv.vec_data THEN Panic(bv, "expect_none_store")
        ELSE LET data == bv.vec_data[data_index] IN
             IF vec_index > Len(data) THEN Panic(bv, "vec_insert_out_of_bounds")
             ELSE LET inserted == VecInsert(data, vec_index, element) IN
                  IF Len(inserted) <= bv.capacity_per_vec
                  THEN Ok([bv EXCEPT !.vec_data[data_index] = inserted,
                                     !.vec_structure[data_index + 1] = @ + 1], None)
                  ELSE insert_cascade([bv EXCEPT !.vec_data[data_index] = VecInit(inserted)],
                                      inserted[Len(inserted)], data_index + 1)

(***************************************************************************)
(* push_vec_raw, push_vec, append.                                         *)
(***************************************************************************)
\* the while loop of push_vec_raw; key is its local start_index
RECURSIVE push_vec_raw_loop(_, _, _)
push_vec_raw_loop(bv, elements, key) ==
    IF elements = << >> THEN Ok(bv, None)
    ELSE LET to_drain == Min(Len(elements), bv.capacity_per_vec)
             new_elems == SubSeq(elements, 1, to_drain)
         IN  push_vec_raw_loop(
                 [bv EXCEPT !.vec_structure = Append(@, Len(new_elems)),
                            !.vec_data = StoreInsert(@, key, new_elems)],
                 SubSeq(elements, to_drain + 1, Len(elements)), key + 1)

\* with capacity_per_vec = 0 the loop drains nothing and never ends
push_vec_raw(bv, elements) ==
    IF bv.capacity_per_vec = 0 /\ elements # << >> THEN Panic(bv, "never_returns")
    ELSE push_vec_raw_loop(bv, elements, Len(bv.vec_structure))

\* checks: the build traps usize overflow; otherwise capacity_per_vec - vec_size
\* wraps to a value above any elements.len()
push_vec(bv, elements, checks) ==
    LET start == Len(bv.vec_structure) IN
    IF start = 0 THEN push_vec_raw(bv, elements)
    ELSE
    LET vec_size == bv.vec_structure[start]
        key == start - 1
        wraps == bv.capacity_per_vec < vec_size
        elems_to_push == bv.capacity_per_vec - vec_size
    IN  IF wraps /\ checks THEN Panic(bv, "subtract_overflow")
        ELSE IF wraps \/ elems_to_push > Len(elements)
        THEN LET bumped == [bv EXCEPT !.vec_structure[start] = @ + Len(elements)] IN
             IF key \notin DOMAIN bv.vec_data THEN Panic(bumped, "unwrap_none_store")
             ELSE Ok([bumped EXCEPT !.vec_data[key] = @ \o elements], None)
        ELSE LET filled == [bv EXCEPT !.vec_structure[start] = bv.capacity_per_vec] IN
             IF key \notin DOMAIN bv.vec_data THEN Panic(filled, "unwrap_none_store")
             ELSE push_vec_raw(
                      [filled EXCEPT !.vec_data[key] = @ \o SubSeq(elements, 1, elems_to_push)],
                      SubSeq(elements, elems_to_push + 1, Len(elements)))

\* the for loop of append over i in 0..bound, other being the argument as
\* Vec::append left it; the outcome's ret is other as the call left it
RECURSIVE append_loop(_, _, _, _, _)
append_loop(bv, other, i, bound, index_to_push) ==
    IF i >= bound THEN Ok(bv, other)
    ELSE IF i \notin DOMAIN other.vec_data
    THEN [bv |-> bv, ret |-> other, panic |-> "unwrap_none_store"]
    ELSE append_loop([bv EXCEPT !.vec_data = StoreInsert(@, index_to_push, other.vec_data[i])],
                     [other EXCEPT !.vec_data = StoreRemove(@, i)],
                     i + 1, bound, index_to_push + 1)

\* a slip that joins the directories before it compares the capacities
append_joins_first(bv, other) ==
    IF other.capacity_per_vec = bv.capacity_per_vec
    THEN append_loop([bv EXCEPT !.vec_structure = @ \o other.vec_structure],
                     [other EXCEPT !.vec_structure = << >>], 0, 0, Len(bv.vec_structure))
    ELSE [bv |-> [bv EXCEPT !.vec_structure = @ \o other.vec_structure],
          ret |-> [other EXCEPT !.vec_structure = << >>],
          panic |-> "different_structure"]

append(bv, other) ==
    IF other.capacity_per_vec = bv.capacity_per_vec
    THEN LET index_to_push == Len(bv.vec_structure)
             joined == [bv EXCEPT !.vec_structure = @ \o other.vec_structure]
             moved_from == [other EXCEPT !.vec_structure = << >>]
         IN  append_loop(joined, moved_from, 0, Len(moved_from.vec_structure), index_to_push)
    ELSE [bv |-> bv, ret |-> other, panic |-> "different_structure"]

(***************************************************************************)
(* Iteration over &BigVec.                                                 *)
(***************************************************************************)
\* reads counts the lookups in vec_data
into_iter(bv) ==
    [number_of_vec |-> Len(bv.vec_structure),
     current_vec |-> 0,
     current_vec_iterator |-> IF 0 \in DOMAIN bv.vec_data THEN bv.vec_data[0] ELSE << >>,
     reads |-> 1]

\* BigVecIntoIterator::next: [it, ret, panic]
next(bv, it) ==
    IF it.current_vec_iterator # << >>
    THEN [it |-> [it EXCEPT !.current_vec_iterator = VecTail(@)],
          ret |-> Some(it.current_vec_iterator[1]), panic |-> "none"]
    ELSE IF it.current_vec + 1 >= it.number_of_vec
    THEN [it |-> it, ret |-> None, panic |-> "none"]
    ELSE LET current_vec == it.current_vec + 1
             moved == [it EXCEPT !.current_vec = current_vec, !.reads = @ + 1]
         IN  IF current_vec \notin DOMAIN bv.vec_data
             THEN [it |-> moved, ret |-> None, panic |-> "wrongly_formed"]
             ELSE LET vec == bv.vec_data[current_vec] IN
                  [it |-> [moved EXCEPT !.current_vec_iterator =
                                            IF vec = << >> THEN vec ELSE VecTail(vec)],
                   ret |-> IF vec = << >> THEN None ELSE Some(vec[1]),
                   panic |-> "none"]

\* a for loop over the iterator: next() until it returns None; [items, reads, panic]
RECURSIVE collect(_, _, _)
collect(bv, it, items) ==
    LET r == next(bv, it) IN
    IF r.panic # "none" THEN [items |-> items, reads |-> r.it.reads, panic |-> r.panic]
    ELSE IF r.ret = None THEN [items |-> items, reads |-> r.it.reads, panic |-> "none"]
    ELSE collect(bv, r.it, Append(items, r.ret[1]))

\* for elem in &big_vec { ret.push(elem) }
full_vec(bv) == collect(bv, into_iter(bv), << >>)

(***************************************************************************)
(* The state machine: one BigVec and the calls made on it.  call is the    *)
(* last call and its arguments, ret what it returned, panicked the panic   *)
(* that ended it ("none" when it returned).  A panic ends the program: no  *)
(* call follows it, and the fields keep what the call had written.         *)
(***************************************************************************)
Self ==
    [start_index |-> start_index, capacity_per_vec |-> capacity_per_vec,
     vec_structure |-> vec_structure, vec_data |-> vec_data]

\* the BigVec the primed variables hold
SelfNext ==
    [start_index |-> start_index', capacity_per_vec |-> capacity_per_vec',
     vec_structure |-> vec_structure', vec_data |-> vec_data']

\* n more elements can be created within the bound of the model
Room(n) == fresh + n - 1 <= MaxFresh

Indexes == 0..MaxFresh

NoOther == with_capacity_per_vec(0)

Call(name, index, elements, other) ==
    [name |-> name, index |-> index, elements |-> elements, other |-> other]

\* BigVec::from(elements) with capacity cap
from_vec(cap, elements) == push_vec(with_capacity_per_vec(cap), elements, TRUE)

\* the arguments of append holding n new elements: BigVec::from values of the
\* same capacity and of another one, also after a pop_first_vec
OtherVecs(n) ==
    LET built == {from_vec(c, FreshVec(fresh, n)) :
                     c \in {capacity_per_vec, capacity_per_vec + 1}}
        made == {o.bv : o \in {x \in built : x.panic = "none"}}
    IN  made \cup {pop_first_vec(b).bv : b \in made}

Apply(out, c, created) ==
    /\ start_index' = out.bv.start_index
    /\ capacity_per_vec' = out.bv.capacity_per_vec
    /\ vec_structure' = out.bv.vec_structure
    /\ vec_data' = out.bv.vec_data
    /\ ret' = out.ret
    /\ panicked' = out.panic
    /\ call' = c
    /\ fresh' = fresh + created

Init ==
    /\ capacity_per_vec \in 0..MaxCap
    /\ start_index = 0
    /\ vec_structure = << >>
    /\ vec_data = EmptyStore
    /\ fresh = 1
    /\ call = Call("with_capacity_per_vec", 0, << >>, NoOther)
    /\ ret = None
    /\ panicked = "none"

Push ==
    /\ panicked = "none"
    /\ Room(1)
    /\ Apply(push(Self, fresh), Call("push", 0, <<fresh>>, NoOther), 1)

Pop ==
    /\ panicked = "none"
    /\ Apply(pop(Self), Call("pop", 0, << >>, NoOther), 0)

PopFirstVec ==
    /\ panicked = "none"
    /\ start_index < MaxStart
    /\ Apply(pop_first_vec(Self), Call("pop_first_vec", 0, << >>, NoOther), 0)

Get ==
    /\ panicked = "none"
    /\ \E index \in Indexes :
          Apply(get(Self, index), Call("get", index, << >>, NoOther), 0)

SetAt ==
    /\ panicked = "none"
    /\ Room(1)
    /\ \E index \in Indexes :
          Apply(set_at(Self, index, fresh), Call("get_mut", index, <<fresh>>, NoOther), 1)

Insert ==
    /\ panicked = "none"
    /\ Room(1)
    /\ \E index \in Indexes :
          Apply(insert(Self, index, fresh), Call("insert", index, <<fresh>>, NoOther), 1)

\* the build either traps the usize overflow of push_vec or lets it wrap
PushVec ==
    /\ panicked = "none"
    /\ \E n \in 0..MaxElems, checks \in BOOLEAN :
          /\ Room(n)
          /\ Apply(push_vec(Self, FreshVec(fresh, n), checks),
                   Call("push_vec", 0, FreshVec(fresh, n), NoOther), n)

PushVecRaw ==
    /\ panicked = "none"
    /\ \E n \in 0..MaxElems :
          /\ Room(n)
          /\ Apply(push_vec_raw(Self, FreshVec(fresh, n)),
                   Call("push_vec_raw", 0, FreshVec(fresh, n), NoOther), n)

AppendOther ==
    /\ panicked = "none"
    /\ \E n \in 0..MaxElems :
          /\ Room(n)
          /\ \E other \in OtherVecs(n) :
                Apply(append(Self, other), Call("append", 0, << >>, other), n)

\* call.index is the number of store reads the iteration made
Iterate ==
    /\ panicked = "none"
    /\ LET r == full_vec(Self) IN
       Apply([bv |-> Self, ret |-> r.items, panic |-> r.panic],
             Call("iter", r.reads, << >>, NoOther), 0)

Next ==
    \/ Push
    \/ Pop
    \/ PopFirstVec
    \/ Get
    \/ SetAt
    \/ Insert
    \/ PushVec
    \/ PushVecRaw
    \/ AppendOther
    \/ Iterate

Spec == Init /\ [][Next]_vars

\* the calls a BigVec::from value and its users make without push_vec_raw,
\* append and get_mut
NextCore ==
    \/ Push
    \/ Pop
    \/ PopFirstVec
    \/ Insert
    \/ PushVec
    \/ Get
    \/ Iterate

SpecCore == Init /\ [][NextCore]_vars

(***************************************************************************)
(* BigVec::from(S) drained by pop_first_vec until it returns None.         *)
(***************************************************************************)
\* BigVec::from(S); call.elements keeps S
FromVec ==
    /\ panicked = "none"
    /\ call.name = "with_capacity_per_vec"
    /\ \E n \in 0..MaxSeq :
          \E S \in [1..n -> 1..MaxVal] :
             LET out == from_vec(capacity_per_vec, S) IN
             Apply([out EXCEPT !.ret = << >>], Call("from", 0, S, NoOther), 0)

\* one pop_first_vec of the draining loop; ret is the concatenation of the
\* chunks returned so far, and the loop ends at the first None
DrainStep ==
    /\ panicked = "none"
    /\ call.name \in {"from", "drain"}
    /\ LET out == pop_first_vec(Self) IN
       IF out.ret = None
       THEN Apply([out EXCEPT !.ret = ret], [call EXCEPT !.name = "drained"], 0)
       ELSE Apply([out EXCEPT !.ret = ret \o out.ret[1]], [call EXCEPT !.name = "drain"], 0)

NextRoundTrip ==
    \/ FromVec
    \/ DrainStep

SpecRoundTrip == Init /\ [][NextRoundTrip]_vars

(***************************************************************************)
(* A BigVec that only sees push, pop, insert and push_vec.                 *)
(***************************************************************************)
NextLen ==
    \/ Push
    \/ Pop
    \/ Insert
    \/ PushVec

SpecLen == Init /\ [][NextLen]_vars

(***************************************************************************)
(* A BigVec filled by push and emptied by pop, one element at a time.      *)
(***************************************************************************)
NextPushPop ==
    \/ Push
    \/ Pop

SpecPushPop == Init /\ [][NextPushPop]_vars

(***************************************************************************)
(* A BigVec filled by push and drained by pop and pop_first_vec in any     *)
(* order.                                                                  *)
(***************************************************************************)
\* pop_first_vec leaves start_index alone on an empty directory, so that the
\* chunks push made bound start_index here
DrainFront ==
    /\ panicked = "none"
    /\ Apply(pop_first_vec(Self), Call("pop_first_vec", 0, << >>, NoOther), 0)

NextDrain ==
    \/ Push
    \/ Pop
    \/ DrainFront

SpecDrain == Init /\ [][NextDrain]_vars

(***************************************************************************)
(* What the claims speak of.                                               *)
(***************************************************************************)
\* the chunk the directory position i (from 0) names, empty when the store
\* holds none at key start_index + i
ChunkAt(bv, i) ==
    IF bv.start_index + i \in DOMAIN bv.vec_data
    THEN bv.vec_data[bv.start_index + i] ELSE << >>

\* the chunks of directory positions from..vec_structure.len() - 1, concatenated
RECURSIVE ChunksFrom(_, _)
ChunksFrom(bv, from) ==
    IF from >= Len(bv.vec_structure) THEN << >>
    ELSE ChunkAt(bv, from) \o ChunksFrom(bv, from + 1)

\* the logical sequence: the directory's chunks in order
Logical(bv) == ChunksFrom(bv, 0)

\* the keys the directory names
DirectoryKeys(bv) == {bv.start_index + i : i \in 0..(Len(bv.vec_structure) - 1)}

\* every directory entry has a store entry of that many elements
DirectoryMatchesStore(bv) ==
    \A i \in 0..(Len(bv.vec_structure) - 1) :
        /\ bv.start_index + i \in DOMAIN bv.vec_data
        /\ Len(bv.vec_data[bv.start_index + i]) = bv.vec_structure[i + 1]

\* the store holds exactly the chunks the directory names, each of the size
\* the directory gives, between 1 and capacity_per_vec
WellFormed(bv) ==
    /\ bv.capacity_per_vec >= 1
    /\ DOMAIN bv.vec_data = DirectoryKeys(bv)
    /\ DirectoryMatchesStore(bv)
    /\ \A i \in 1..Len(bv.vec_structure) :
           bv.vec_structure[i] \in 1..bv.capacity_per_vec

\* the last call was name
Called(name) == call.name = name

\* the step is a call of name on a BigVec whose store and directory agree
Calls(name) == call'.name = name /\ WellFormed(Self)

(***************************************************************************)
(* C1..C10                                                                 *)
(***************************************************************************)
\* C1: between calls, the store holds an entry at key k iff
\* start_index <= k < start_index + vec_structure.len()
C1_StoreKeysAreDirectoryKeys ==
    (panicked = "none" /\ capacity_per_vec >= 1)
        => DOMAIN vec_data = DirectoryKeys(Self)

\* C2: between calls, vec_structure[i] is the number of elements of the chunk
\* stored at key start_index + i
C2_DirectoryCountsChunks ==
    (panicked = "none" /\ capacity_per_vec >= 1) => DirectoryMatchesStore(Self)

\* C3: get(index) never panics, returns None iff index >= len(), and otherwise
\* returns the element at position index of the logical sequence (stated of
\* the BigVecs whose store and directory agree)
C3_GetReturnsIndexedElement ==
    (Called("get") /\ WellFormed(Self)) =>
        /\ panicked = "none"
        /\ (ret = None) <=> (call.index >= len(Self))
        /\ call.index < len(Self) => ret = Some(Logical(Self)[call.index + 1])

\* C4: insert(index, v) with 0 <= index <= len() succeeds, iteration then
\* yields the old sequence with v spliced in at index, and no chunk holds more
\* than capacity_per_vec elements
C4_InsertSplices ==
    [][(Calls("insert") /\ call'.index <= len(Self)) =>
          /\ panicked' = "none"
          /\ full_vec(SelfNext).items =
                 VecInsert(full_vec(Self).items, call'.index, call'.elements[1])
          /\ \A k \in DOMAIN vec_data' : Len(vec_data'[k]) <= capacity_per_vec
      ]_vars

\* C5: pop() on a non-empty BigVec, also after pop_first_vec, returns the last
\* element of the logical sequence and leaves the sequence without it, dropping
\* the last chunk's store and directory entry when it empties; on an empty
\* BigVec it returns None and changes nothing
C5_PopReturnsLast ==
    [][Calls("pop") =>
          IF is_empty(Self)
          THEN ret' = None /\ SelfNext = Self /\ panicked' = "none"
          ELSE /\ panicked' = "none"
               /\ ret' = Some(Logical(Self)[Len(Logical(Self))])
               /\ Logical(SelfNext) = VecInit(Logical(Self))
               /\ WellFormed(SelfNext)
      ]_vars

\* what get(i) gives, panic included
GetResult(bv, i) == [ret |-> get(bv, i).ret, panic |-> get(bv, i).panic]

\* C6: pop_first_vec() on a non-empty BigVec returns the first chunk, removes
\* the first directory entry and adds 1 to start_index, after which get(i)
\* returns what get(i + k) returned before, k the size of the removed chunk; it
\* returns None iff the BigVec is empty, and then changes nothing
C6_PopFirstVecShiftsByChunk ==
    [][Calls("pop_first_vec") =>
          IF is_empty(Self)
          THEN ret' = None /\ SelfNext = Self
          ELSE LET k == vec_structure[1] IN
               /\ ret' = Some(SubSeq(Logical(Self), 1, k))
               /\ vec_structure' = VecTail(vec_structure)
               /\ start_index' = start_index + 1
               /\ \A i \in Indexes :
                      i + k \in Indexes =>
                          GetResult(SelfNext, i) = GetResult(Self, i + k)
      ]_vars

\* C7: iterating &BigVec, also after pop_first_vec, yields the chunks of the
\* directory positions 0..vec_structure.len() (keys start_index + i) in order,
\* len() elements in all, and ends
C7_IterationYieldsLogical ==
    (Called("iter") /\ WellFormed(Self)) =>
        /\ panicked = "none"
        /\ ret = Logical(Self)
        /\ Len(ret) = len(Self)

\* C8: append(other) of equal capacity moves other's chunks behind self's last
\* chunk: iteration yields self's elements then other's, len() is the sum of
\* both, and every directory entry of self has its store entry
C8_AppendConcatenates ==
    [][(Calls("append") /\ call'.other.capacity_per_vec = capacity_per_vec) =>
          /\ panicked' = "none"
          /\ full_vec(SelfNext).items = full_vec(Self).items \o full_vec(call'.other).items
          /\ len(SelfNext) = len(Self) + len(call'.other)
          /\ DirectoryMatchesStore(SelfNext)
      ]_vars

\* the sizes of the chunks holding n elements cut at capacity cap
RECURSIVE FullChunks(_, _)
FullChunks(n, cap) ==
    IF n = 0 THEN << >>
    ELSE <<Min(n, cap)>> \o FullChunks(n - Min(n, cap), cap)

\* C9: push_vec(elements), on a BigVec made by push, pop, insert, pop_first_vec
\* and push_vec, makes iteration yield the old sequence then elements and len()
\* grow by elements.len(); the last chunk is filled to capacity_per_vec first,
\* then come full chunks, the final one possibly partial
C9_PushVecExtends ==
    [][Calls("push_vec") =>
          LET n == Len(call'.elements)
              last == Len(vec_structure)
              free == IF last = 0 THEN 0 ELSE capacity_per_vec - vec_structure[last]
              filled == IF last = 0 THEN vec_structure
                        ELSE [vec_structure EXCEPT ![last] = @ + Min(free, n)]
          IN  /\ panicked' = "none"
              /\ full_vec(SelfNext).items = full_vec(Self).items \o call'.elements
              /\ len(SelfNext) = len(Self) + n
              /\ vec_structure' = filled \o FullChunks(n - Min(free, n), capacity_per_vec)
      ]_vars

\* C10: push_vec_raw(elements) leaves every chunk and directory entry as it
\* was and appends ceil(n / capacity_per_vec) chunks holding elements in order,
\* all full but possibly the final one; iteration yields the old sequence then
\* elements, and an empty elements changes nothing
C10_PushVecRawAddsChunks ==
    [][Calls("push_vec_raw") =>
          LET n == Len(call'.elements) IN
          /\ panicked' = "none"
          /\ \A k \in DOMAIN vec_data : k \in DOMAIN vec_data' /\ vec_data'[k] = vec_data[k]
          /\ vec_structure' = vec_structure \o FullChunks(n, capacity_per_vec)
          /\ Logical(SelfNext) = Logical(Self) \o call'.elements
          /\ full_vec(SelfNext).items = full_vec(Self).items \o call'.elements
          /\ n = 0 => SelfNext = Self
      ]_vars

(***************************************************************************)
(* C11..C20                                                                *)
(***************************************************************************)
\* C11: insert(index, v) with index > len() panics out of bounds and leaves
\* vec_structure, the store and len() as they were
C11_InsertBeyondLenPanics ==
    [][(Calls("insert") /\ call'.index > len(Self)) =>
          /\ panicked' = "out_of_bounds"
          /\ SelfNext = Self
      ]_vars

\* C12: append(other) with other.capacity_per_vec # capacity_per_vec panics
\* with the capacity mismatch, self and other being left as they were
C12_AppendMismatchChangesNothing ==
    [][(call'.name = "append" /\ call'.other.capacity_per_vec # capacity_per_vec) =>
          /\ panicked' = "different_structure"
          /\ SelfNext = Self
          /\ ret' = call'.other
      ]_vars

\* an append of a non-empty BigVec of another capacity to a non-empty BigVec
\* has panicked
C12_Witness ==
    /\ Called("append")
    /\ call.other.capacity_per_vec # capacity_per_vec
    /\ call.other.vec_structure # << >>
    /\ vec_structure # << >>
    /\ panicked = "different_structure"

\* C13: a BigVec built from a flat sequence S and drained by pop_first_vec
\* until None gives back S, chunk after chunk, and is left empty
C13_FromThenDrainIsIdentity ==
    (call.name = "drained" /\ capacity_per_vec >= 1) =>
        /\ panicked = "none"
        /\ ret = call.elements
        /\ is_empty(Self)
        /\ vec_data = EmptyStore

C13_Witness ==
    /\ call.name = "drained"
    /\ capacity_per_vec = 2
    /\ Len(call.elements) = 3
    /\ start_index = 2
    /\ ret = call.elements

\* the number of elements the store holds
RECURSIVE StoredIn(_, _)
StoredIn(store, keys) ==
    IF keys = {} THEN 0
    ELSE LET k == CHOOSE x \in keys : TRUE
         IN  Len(store[k]) + StoredIn(store, keys \ {k})

Stored(bv) == StoredIn(bv.vec_data, DOMAIN bv.vec_data)

\* C14: under push, pop, insert and push_vec, len() is the number of elements
\* stored; a push or insert adds 1, push_vec of n adds n, a pop returning Some
\* takes 1 away and a failed call adds nothing
C14_LenCountsStored ==
    [][capacity_per_vec >= 1 =>
          /\ Stored(SelfNext) = len(SelfNext)
          /\ len(SelfNext) = SumSeq(vec_structure')
          /\ len(SelfNext) - len(Self) =
                CASE panicked' # "none" -> 0
                  [] call'.name \in {"push", "insert"} -> 1
                  [] call'.name = "push_vec" -> Len(call'.elements)
                  [] call'.name = "pop" -> IF ret' = None THEN 0 ELSE 0 - 1
                  [] OTHER -> 0
      ]_vars

C14_Witness ==
    /\ Called("pop")
    /\ ret # None
    /\ Len(vec_structure) = 2
    /\ vec_structure[1] < capacity_per_vec
    /\ Stored(Self) = 3
    /\ len(Self) = 3

\* C15: under push and pop alone, the n elements held fill floor(n / C) chunks
\* of C and one more of n mod C when that is not 0, and once every element
\* pushed is popped the directory is [] and is_empty() is true
C15_PushFillsChunksPopDrains ==
    capacity_per_vec >= 1 =>
        /\ panicked = "none"
        /\ vec_structure = FullChunks(Stored(Self), capacity_per_vec)
        /\ (Stored(Self) = 0 => is_empty(Self))
        /\ (Called("pop") /\ ret # None /\ ret[1] = 1) => Stored(Self) = 0

C15_Witness ==
    /\ Called("pop")
    /\ capacity_per_vec = 2
    /\ fresh = 6
    /\ ret = Some(1)
    /\ vec_structure = << >>
    /\ is_empty(Self)

\* C16: between calls, with capacity_per_vec >= 1, every directory entry is
\* above 0 and at most capacity_per_vec
C16_DirectoryEntriesWithinCapacity ==
    (panicked = "none" /\ capacity_per_vec >= 1) =>
        \A i \in DOMAIN vec_structure :
           0 < vec_structure[i] /\ vec_structure[i] <= capacity_per_vec

\* C17: start_index never decreases, and push, insert, push_vec, push_vec_raw
\* and append write no store entry at a key below start_index, the keys of the
\* chunks pop_first_vec removed
C17_DrainedKeysNeverReused ==
    [][/\ start_index' >= start_index
       /\ (/\ call'.name \in {"push", "insert", "push_vec", "push_vec_raw", "append"}
           /\ panicked' = "none")
            => \A k \in DOMAIN vec_data' :
                  k < start_index => (k \in DOMAIN vec_data /\ vec_data'[k] = vec_data[k])
      ]_vars

\* C18: between calls is_empty() is true exactly when len() is 0, and then the
\* store holds no chunk
C18_EmptyOwnsNoChunk ==
    (panicked = "none" /\ capacity_per_vec >= 1) =>
        /\ is_empty(Self) <=> len(Self) = 0
        /\ is_empty(Self) => vec_data = EmptyStore

\* C19: an assignment through get_mut(index) with index < len() replaces the
\* element at position index, which get(index) then returns, and leaves every
\* other element, vec_structure, start_index and len() alone; with
\* index >= len() get_mut returns None and nothing changes (stated of the
\* BigVecs whose store and directory agree)
C19_GetMutWritesOneElement ==
    [][Calls("get_mut") =>
          IF call'.index < len(Self)
          THEN /\ panicked' = "none"
               /\ Logical(SelfNext) = [Logical(Self) EXCEPT ![call'.index + 1] = call'.elements[1]]
               /\ GetResult(SelfNext, call'.index) = [ret |-> Some(call'.elements[1]), panic |-> "none"]
               /\ vec_structure' = vec_structure
               /\ start_index' = start_index
               /\ len(SelfNext) = len(Self)
          ELSE /\ panicked' = "unwrap_none_index"
               /\ SelfNext = Self
      ]_vars

\* C20: insert(len(), v) succeeds and leaves the BigVec as push(v) would,
\* whether the last chunk is full or not (stated of the BigVecs whose store
\* and directory agree)
C20_InsertAtLenIsPush ==
    [][(Calls("insert") /\ call'.index = len(Self)) =>
          /\ panicked' = "none"
          /\ SelfNext = push(Self, call'.elements[1]).bv
      ]_vars

(***************************************************************************)
(* C21..C30                                                                *)
(***************************************************************************)
\* C21: in every state between calls, push(v) followed at once by pop()
\* returns Some(v) and puts vec_structure, start_index and the store back as
\* they were before the push (stated of the BigVecs whose store and directory
\* agree)
C21_PushThenPopRestores ==
    (panicked = "none" /\ WellFormed(Self)) =>
        LET pushed == push(Self, fresh)
            popped == pop(pushed.bv)
        IN  /\ pushed.panic = "none"
            /\ popped.panic = "none"
            /\ popped.ret = Some(fresh)
            /\ popped.bv = Self

\* C22: a push, pop, pop_first_vec, insert, push_vec, push_vec_raw or append
\* that panics leaves vec_structure, start_index and the store as they were
\* before the call (stated of the BigVecs whose store and directory agree)
C22_PanicLeavesNoPartialWrite ==
    [][(/\ call'.name \in {"push", "pop", "pop_first_vec", "insert",
                           "push_vec", "push_vec_raw", "append"}
        /\ WellFormed(Self)
        /\ panicked' # "none")
          => SelfNext = Self
      ]_vars

\* C23: a constructed BigVec has capacity_per_vec > 0, so that the division by
\* capacity_per_vec in get, get_mut and insert is defined and push makes no
\* chunk larger than capacity_per_vec
C23_CapacityIsPositive ==
    /\ capacity_per_vec > 0
    /\ panicked # "divide_by_zero"
    /\ Called("push") => \A k \in DOMAIN vec_data : Len(vec_data[k]) <= capacity_per_vec

\* C24: with chunk_i = index / capacity_per_vec and offset = index %
\* capacity_per_vec, get_correct_indexes(index) returns None exactly when
\* chunk_i >= vec_structure.len() or chunk_i is the last chunk and offset >=
\* vec_structure[chunk_i], and otherwise (start_index + chunk_i, offset); it
\* changes nothing and its result does not depend on the store
C24_IndexTranslation ==
    (panicked = "none" /\ capacity_per_vec >= 1) =>
        \A index \in Indexes :
           LET r == get_correct_indexes(Self, index)
               chunk_i == index \div capacity_per_vec
               offset == index % capacity_per_vec
               last == Len(vec_structure) - 1
               beyond == \/ chunk_i >= Len(vec_structure)
                         \/ (chunk_i = last /\ offset >= vec_structure[chunk_i + 1])
           IN  /\ r.panic = "none"
               /\ r.bv = Self
               /\ (r.ret = None) <=> beyond
               /\ ~beyond => r.ret = Some(<<start_index + chunk_i, offset>>)
               /\ get_correct_indexes([Self EXCEPT !.vec_data = EmptyStore], index).ret = r.ret

C24_Witness ==
    /\ Called("get")
    /\ panicked = "none"
    /\ start_index = 1
    /\ Len(vec_structure) = 2
    /\ call.index = capacity_per_vec
    /\ ret # None
    /\ get_correct_indexes(Self, call.index).ret = Some(<<2, 0>>)

\* the chunks of directory positions a..b, concatenated
RECURSIVE ChunksBetween(_, _, _)
ChunksBetween(bv, a, b) ==
    IF a > b THEN << >> ELSE ChunkAt(bv, a) \o ChunksBetween(bv, a + 1, b)

\* the first directory position from d on whose chunk is not full, or
\* vec_structure.len() when there is none
CascadeEnd(bv, d) ==
    LET open == {j \in d..(Len(bv.vec_structure) - 1) :
                    bv.vec_structure[j + 1] < bv.capacity_per_vec}
    IN  IF open = {} THEN Len(bv.vec_structure)
        ELSE CHOOSE j \in open : \A k \in open : j <= k

\* C25: an insert into a full chunk moves the last element of each full chunk
\* to the front of the next, up to the first chunk that is not full, whose
\* directory entry grows by one; the chunks after it and before the insertion
\* chunk are unchanged, and a new chunk of one element is added iff every chunk
\* from the insertion chunk on was full; for any start_index (stated of the
\* BigVecs whose store and directory agree)
C25_InsertCascades ==
    [][LET d == call'.index \div capacity_per_vec
           offset == call'.index % capacity_per_vec
           n == Len(vec_structure)
           j == CascadeEnd(Self, d)
       IN  (/\ Calls("insert")
            /\ d < n
            /\ vec_structure[d + 1] = capacity_per_vec)
             => /\ panicked' = "none"
                /\ start_index' = start_index
                /\ vec_structure' = IF j < n THEN [vec_structure EXCEPT ![j + 1] = @ + 1]
                                              ELSE Append(vec_structure, 1)
                /\ DirectoryMatchesStore(SelfNext)
                /\ ChunksBetween(SelfNext, d, j) =
                       VecInsert(ChunksBetween(Self, d, Min(j, n - 1)), offset, call'.elements[1])
                /\ \A p \in 0..(n - 1) :
                       (p < d \/ p > j) => ChunkAt(SelfNext, p) = ChunkAt(Self, p)
      ]_vars

\* C26: insert(index, v) leaves every chunk at a directory position before
\* index / capacity_per_vec, its directory entry, start_index and
\* capacity_per_vec unchanged, and the chunk it creates overwrites no store
\* entry (stated of the BigVecs whose store and directory agree)
C26_InsertFrame ==
    [][(Calls("insert") /\ panicked' = "none") =>
          LET d == call'.index \div capacity_per_vec IN
          /\ start_index' = start_index
          /\ capacity_per_vec' = capacity_per_vec
          /\ \A p \in 0..(Len(vec_structure) - 1) :
                 p < d => /\ vec_structure'[p + 1] = vec_structure[p + 1]
                          /\ ChunkAt(SelfNext, p) = ChunkAt(Self, p)
          /\ Len(vec_structure') > Len(vec_structure) =>
                 /\ DOMAIN vec_data' # DOMAIN vec_data
                 /\ DOMAIN vec_data \subseteq DOMAIN vec_data'
      ]_vars

\* the store keys whose entry the step created, removed or changed
KeysTouched ==
    {k \in DOMAIN vec_data \cup DOMAIN vec_data' :
        \/ k \notin DOMAIN vec_data
        \/ k \notin DOMAIN vec_data'
        \/ vec_data'[k] # vec_data[k]}

\* C27: push(v) touches one store key: it creates the entry <<v>> at key
\* start_index + vec_structure.len() when the directory is empty or its last
\* chunk is full, and otherwise appends v to the entry at key
\* start_index + vec_structure.len() - 1; the other store entries, the other
\* directory entries and start_index are unchanged
C27_PushTouchesOneKey ==
    [][(call'.name = "push" /\ capacity_per_vec >= 1) =>
          LET n == Len(vec_structure)
              v == call'.elements[1]
              opens == n = 0 \/ vec_structure[n] = capacity_per_vec
              key == IF opens THEN start_index + n ELSE start_index + n - 1
          IN  /\ panicked' = "none"
              /\ start_index' = start_index
              /\ capacity_per_vec' = capacity_per_vec
              /\ KeysTouched = {key}
              /\ vec_data'[key] = IF opens THEN <<v>> ELSE Append(vec_data[key], v)
              /\ vec_structure' = IF opens THEN Append(vec_structure, 1)
                                  ELSE [vec_structure EXCEPT ![n] = @ + 1]
      ]_vars

\* C28: an iteration that runs to its end over a BigVec of n chunks makes n
\* store reads (stated of the BigVecs whose store and directory agree)
C28_IterationReadsOncePerChunk ==
    (Called("iter") /\ panicked = "none" /\ WellFormed(Self)) =>
        call.index = Len(vec_structure)

\* C29: under push, pop, insert and push_vec from an empty BigVec, every chunk
\* but the last holds capacity_per_vec elements
C29_InnerChunksAreFull ==
    (panicked = "none" /\ capacity_per_vec >= 1) =>
        \A i \in 1..(Len(vec_structure) - 1) :
           /\ vec_structure[i] = capacity_per_vec
           /\ Len(ChunkAt(Self, i - 1)) = capacity_per_vec

\* C30: no call finds the store without a chunk or an element the directory
\* names: the unwrap and expect of the store lookups, the unwrap of the item
\* references and the iterator's panic never fire
C30_StoreLookupsNeverFail ==
    capacity_per_vec >= 1 =>
        panicked \notin {"unwrap_none_store", "expect_none_store",
                         "unwrap_none_item", "wrongly_formed"}

====
